---- MODULE Spec2Model ----
(***************************************************************************)
(* A state-machine model of the kilo editor's terminal layer               *)
(* (src/src/main.rs): raw-mode session, escape-sequence decoder            *)
(* (Terminal::read_key), geometry resolution (Terminal::get_window_size    *)
(* and vt100::get_cursor_position), the frame buffer and Editor::run;      *)
(* and, under a specification of their own, of the read and write          *)
(* primitives of the platform module src/src/os.rs and its frame buffer.   *)
(*                                                                         *)
(* Bytes are their numeric codes.  A key event is a tuple: <<"Char", b>>   *)
(* or <<"Up">>, <<"Escape">>, ...  An optional value is a sequence of      *)
(* length 0 or 1.  The operating system is the environment: every system   *)
(* call's outcome is chosen by \E from the outcomes that call can have.    *)
(***************************************************************************)
EXTENDS Integers, Sequences, FiniteSets, TLC

(***************************************************************************)
(* Bounds of the model                                                     *)
(***************************************************************************)
\* largest row / column count the window-size sources report in a full run
MaxDim == 2
\* most reads of one read_key invocation that fail with EAGAIN after the
\* invocation has read ESC
MaxAgain == 1
\* largest cursor coordinate followed once the cursor has left the screen
MaxCursor == 1
\* most bytes appended to the frame buffer of os.rs between begin() and end()
MaxOsBuf == 7

(***************************************************************************)
(* Byte codes                                                              *)
(***************************************************************************)
ESC == 27
LBRACKET == 91
UPPER_O == 79
UPPER_A == 65
UPPER_B == 66
UPPER_C == 67
UPPER_D == 68
UPPER_H == 72
UPPER_F == 70
UPPER_R == 82
DIGIT_0 == 48
DIGIT_9 == 57
TILDE == 126
SEMICOLON == 59
PLUS == 43
LOWER_Q == 113
CTRL == 31

Digits == DIGIT_0 .. DIGIT_9

RECURSIVE BitAnd(_, _)
BitAnd(x, y) ==
  IF x = 0 \/ y = 0 THEN 0
  ELSE (x % 2) * (y % 2) + 2 * BitAnd(x \div 2, y \div 2)

\* a quit key that is the letter q itself
CTRL_Q_Letter == LOWER_Q

\* const CTRL_Q: u8 = CTRL & b'q'
CTRL_Q == BitAnd(CTRL, LOWER_Q)

\* the bytes the environment types: those read_key tells apart, the
\* letter a (97) for every other byte, and Ctrl-Q
Bytes ==
  {ESC, LBRACKET, UPPER_O, UPPER_A, UPPER_B, UPPER_C, UPPER_D, UPPER_H,
   UPPER_F, TILDE, 97, CTRL_Q} \cup Digits

(***************************************************************************)
(* enum Key                                                                *)
(***************************************************************************)
NoKey == << >>
KeyChar(b) == <<"Char", b>>
KeyEscape == <<"Escape">>
KeyLeft == <<"Left">>
KeyRight == <<"Right">>
KeyUp == <<"Up">>
KeyDown == <<"Down">>
KeyPageUp == <<"PageUp">>
KeyPageDown == <<"PageDown">>
KeyHome == <<"Home">>
KeyEnd == <<"End">>
KeyDelete == <<"Delete">>

(***************************************************************************)
(* Terminal attributes (libc::termios): the flag words are sets of the     *)
(* flags that are on, c_cc[VMIN] and c_cc[VTIME] are numbers.              *)
(***************************************************************************)
CS7 == {"CSIZE_hi"}
CS8 == {"CSIZE_lo", "CSIZE_hi"}

CookedTermios ==
  [iflag |-> {"BRKINT", "ICRNL", "IXON"}, oflag |-> {"OPOST"},
   cflag |-> CS7 \cup {"CREAD"},
   lflag |-> {"ECHO", "ICANON", "IEXTEN", "ISIG"}, vmin |-> 1, vtime |-> 0]

\* a terminal another program left without echo and without flow control
QuietTermios ==
  [iflag |-> {"ICRNL", "INPCK", "ISTRIP"}, oflag |-> {"OPOST", "ONLCR"},
   cflag |-> CS8 \cup {"CREAD"},
   lflag |-> {"ICANON", "ISIG"}, vmin |-> 1, vtime |-> 0]

InitialTermios == {CookedTermios, QuietTermios}

\* a raw mode that leaves the local flags (echo, line input) as they were
MakeRaw_KeepsLocalFlags(t) ==
  [t EXCEPT !.iflag = @ \ {"BRKINT", "ICRNL", "INPCK", "ISTRIP", "IXON"},
            !.oflag = @ \ {"OPOST"},
            !.cflag = @ \cup CS8,
            !.vmin = 0,
            !.vtime = 1]

\* new_raw_mode: the attribute set derived from the snapshot
MakeRaw(t) ==
  [t EXCEPT !.iflag = @ \ {"BRKINT", "ICRNL", "INPCK", "ISTRIP", "IXON"},
            !.oflag = @ \ {"OPOST"},
            !.cflag = @ \cup CS8,
            !.lflag = @ \ {"ECHO", "ICANON", "IEXTEN", "ISIG"},
            !.vmin = 0,
            !.vtime = 1]

\* a Terminal constructed before the raw attributes are applied
NewTerminal_BeforeSet(got, set, t) == IF got THEN <<t>> ELSE << >>

\* new_raw_mode, lines 287, 300, 302: Terminal { orig, .. } is constructed
\* once tcgetattr()? and tcsetattr(&raw)? have both returned Ok; << >>
\* when new_raw_mode returns Err and no Terminal exists
NewTerminal(got, set, t) == IF got /\ set THEN <<t>> ELSE << >>

\* a teardown that writes a derived value instead of the snapshot
DropAttrs_Derived(o) == [o EXCEPT !.vmin = 0, !.vtime = 1]

\* impl Drop for Terminal: the attributes handed to tcsetattr
DropAttrs(o) == o

(***************************************************************************)
(* Terminal::read_key: the matches on the bytes of an escape sequence      *)
(***************************************************************************)
\* arrows swapped
CsiKey_Swapped(b) ==
  CASE b = UPPER_A -> KeyDown
    [] b = UPPER_B -> KeyUp
    [] b = UPPER_C -> KeyRight
    [] b = UPPER_D -> KeyLeft
    [] b = UPPER_H -> KeyHome
    [] b = UPPER_F -> KeyEnd
    [] OTHER -> NoKey

\* the byte after ESC [ : the key it names, NoKey when it names none
CsiKey(b) ==
  CASE b = UPPER_A -> KeyUp
    [] b = UPPER_B -> KeyDown
    [] b = UPPER_C -> KeyRight
    [] b = UPPER_D -> KeyLeft
    [] b = UPPER_H -> KeyHome
    [] b = UPPER_F -> KeyEnd
    [] OTHER -> NoKey

\* PageUp and PageDown exchanged
TildeKey_Swapped(d) ==
  CASE d \in {DIGIT_0 + 1, DIGIT_0 + 7} -> KeyHome
    [] d = DIGIT_0 + 3 -> KeyDelete
    [] d \in {DIGIT_0 + 4, DIGIT_0 + 8} -> KeyEnd
    [] d = DIGIT_0 + 5 -> KeyPageDown
    [] d = DIGIT_0 + 6 -> KeyPageUp
    [] OTHER -> NoKey

\* the digit d of ESC [ d ~ : the key it names, NoKey when it names none
TildeKey(d) ==
  CASE d \in {DIGIT_0 + 1, DIGIT_0 + 7} -> KeyHome
    [] d = DIGIT_0 + 3 -> KeyDelete
    [] d \in {DIGIT_0 + 4, DIGIT_0 + 8} -> KeyEnd
    [] d = DIGIT_0 + 5 -> KeyPageUp
    [] d = DIGIT_0 + 6 -> KeyPageDown
    [] OTHER -> NoKey

\* the byte after ESC O : the key it names, NoKey when it names none
Ss3Key(b) ==
  CASE b = UPPER_H -> KeyHome
    [] b = UPPER_F -> KeyEnd
    [] OTHER -> NoKey

(***************************************************************************)
(* One step of read_key's decoding, after the EAGAIN filter.  A read's      *)
(* outcome is <<"byte", b>> (Some(Ok(b))), <<"eof">> (None: a zero-length   *)
(* read, the timeout), <<"err", "EAGAIN">> or <<"err", "EIO">>.             *)
(* The decoder's position: "first" (line 329), "second" (334), "csi" (337), *)
(* "tilde" (345), "ss3" (362).  A step continues at a position or returns.  *)
(***************************************************************************)
ReadOutcomes ==
  {<<"byte", b>> : b \in Bytes} \cup {<<"eof">>, <<"err", "EAGAIN">>, <<"err", "EIO">>}

Continue(st) == [st |-> st, ret |-> << >>]
Return(k) == [st |-> "done", ret |-> <<"Ok", k>>]
Fail == [st |-> "done", ret |-> <<"Err">>]

\* the closure of stdin.bytes().filter(..): FALSE drops the item, and the
\* adapter then pulls the next one from the underlying iterator
FilterKeeps(o) == ~(o[1] = "err" /\ o[2] = "EAGAIN")

\* an unmatched sequence produces no event: decoding starts over
Unmatched_Dropped == Continue("first")

\* line 373: every path that matched nothing after ESC ends here
Unmatched == Return(KeyEscape)

\* the control mask applied to every literal
FirstByte_Masked(b) ==
  IF b # ESC THEN Return(KeyChar(BitAnd(b, CTRL))) ELSE Continue("second")

\* lines 330-333
FirstByte(b) == IF b # ESC THEN Return(KeyChar(b)) ELSE Continue("second")

\* any second byte opens a CSI sequence
SecondByte_AlwaysCsi(b) == Continue("csi")

\* lines 335-371: the match on the byte after ESC
SecondByte(b) ==
  IF b = LBRACKET THEN Continue("csi")
  ELSE IF b = UPPER_O THEN Continue("ss3")
  ELSE Unmatched

\* lines 338-358: the match on the byte after ESC [
ThirdByteCsi(b) ==
  IF CsiKey(b) # NoKey THEN Return(CsiKey(b))
  ELSE IF b \in Digits THEN Continue("tilde")
  ELSE Unmatched

\* lines 363-367: the match on the byte after ESC O
ThirdByteSs3(b) == IF Ss3Key(b) # NoKey THEN Return(Ss3Key(b)) ELSE Unmatched

\* a decoder that keeps reading digits until the terminator
AfterDigit_Accumulate(d, b) ==
  IF b = TILDE /\ TildeKey(d) # NoKey THEN Return(TildeKey(d))
  ELSE IF b \in Digits THEN Continue("tilde")
  ELSE Unmatched

\* lines 345-356: the byte after ESC [ d
AfterDigit(d, b) ==
  IF b = TILDE /\ TildeKey(d) # NoKey THEN Return(TildeKey(d)) ELSE Unmatched

\* seen: the bytes this invocation has consumed; o: what bytes.next() gave
KeyStep(st, seen, o) ==
  IF o[1] = "err" THEN Fail
  ELSE IF o[1] = "eof" THEN (IF st = "first" THEN Continue("first") ELSE Unmatched)
  ELSE
    CASE st = "first" -> FirstByte(o[2])
      [] st = "second" -> SecondByte(o[2])
      [] st = "csi" -> ThirdByteCsi(o[2])
      [] st = "ss3" -> ThirdByteSs3(o[2])
      [] st = "tilde" -> AfterDigit(seen[3], o[2])

(***************************************************************************)
(* vt100::get_cursor_position                                              *)
(***************************************************************************)
\* stdin.take(2 + 5 + 1 + 5 + 1)
CprTakeLimit == 2 + 5 + 1 + 5 + 1
\* the largest u16
U16Max == 65535

Min(a, b) == IF a < b THEN a ELSE b

\* the 1-based index of the first b in s, 0 when there is none
FirstIndex(s, b) ==
  IF \E i \in 1..Len(s) : s[i] = b
  THEN CHOOSE i \in 1..Len(s) : s[i] = b /\ \A j \in 1..(i - 1) : s[j] # b
  ELSE 0

\* take(limit).read_until(delim): how many bytes of the arriving bytes are
\* read: through the first delim, or limit bytes, or all that arrived
\* before a read returned nothing
ReadUntilCount(arriving, delim, limit) ==
  LET n == Min(limit, Len(arriving))
      i == FirstIndex(SubSeq(arriving, 1, n), delim)
  IN IF i # 0 THEN i ELSE n

\* value of a digit string, checked_mul / checked_add: U16Max + 1 once it
\* has overflowed
RECURSIVE DigitsValue(_, _)
DigitsValue(s, acc) ==
  IF s = << >> THEN acc
  ELSE IF acc > U16Max THEN acc
  ELSE DigitsValue(Tail(s), acc * 10 + (Head(s) - DIGIT_0))

\* str::parse::<u16>: <<v>> for Ok(v), << >> for Err: an optional '+',
\* then one or more digits, the value within u16
ParseU16(s) ==
  LET body == IF s # << >> /\ Head(s) = PLUS THEN Tail(s) ELSE s
  IN IF body = << >> \/ \E i \in 1..Len(body) : body[i] \notin Digits
     THEN << >>
     ELSE IF DigitsValue(body, 0) > U16Max THEN << >>
     ELSE <<DigitsValue(body, 0)>>

\* lines 255-275 on the buffer read_until filled: <<"Ok", rows, cols>>,
\* <<"Err">> (bad CPR), or <<"Panic">> (the slice buf[mid + 1..read - 1]
\* with mid + 1 > read - 1)
ParseCpr(buf) ==
  LET read == Len(buf)
      mid == FirstIndex(buf, SEMICOLON)
  IN IF read < 5 \/ read > 2 + 5 + 1 + 5 THEN <<"Err">>
     ELSE IF buf[1] # ESC \/ buf[2] # LBRACKET THEN <<"Err">>
     ELSE IF mid = 0 THEN <<"Err">>
     ELSE IF ParseU16(SubSeq(buf, 3, mid - 1)) = << >> THEN <<"Err">>
     ELSE IF mid + 1 > read THEN <<"Panic">>
     ELSE IF ParseU16(SubSeq(buf, mid + 1, read - 1)) = << >> THEN <<"Err">>
     ELSE <<"Ok", ParseU16(SubSeq(buf, 3, mid - 1))[1],
                  ParseU16(SubSeq(buf, mid + 1, read - 1))[1]>>

(***************************************************************************)
(* usize arithmetic.  usize is pointer-sized; the model keeps 30 bits,     *)
(* the most for which x + 1 stays within the model checker's integers.    *)
(* An overflowing operation panics in a build with overflow checks and     *)
(* wraps in one without.  << >> stands for the panic, <<v>> for a value.   *)
(***************************************************************************)
UsizeModulus == 2 ^ 30
UsizeMax == UsizeModulus - 1

UsizeSub(x, y, checks) ==
  IF x >= y THEN <<x - y>>
  ELSE IF checks THEN << >>
  ELSE <<(x - y + UsizeModulus) % UsizeModulus>>

UsizeAdd(x, y, checks) ==
  IF x + y <= UsizeMax THEN <<x + y>>
  ELSE IF checks THEN << >>
  ELSE <<(x + y) % UsizeModulus>>

(***************************************************************************)
(* The vt100 escape sequences, as the bytes written                        *)
(***************************************************************************)
RECURSIVE Decimal(_)
\* format!("{}", n)
Decimal(n) ==
  IF n < 10 THEN <<DIGIT_0 + n>>
  ELSE Decimal(n \div 10) \o <<DIGIT_0 + (n % 10)>>

Csi(cmd) == <<ESC, LBRACKET>> \o cmd
\* a probe that asks for the cursor position where the cursor is
ProbeRequest_ReportOnly == Csi(<<54, 110>>)

\* cursor_forward!(999), cursor_down!(999), report_device_status!(active_position)
ProbeRequest ==
  Csi(<<57, 57, 57, UPPER_C>>) \o Csi(<<57, 57, 57, UPPER_B>>) \o Csi(<<54, 110>>)
CursorHome == Csi(<<UPPER_H>>)
CursorPosition(row, col) ==
  Csi(Decimal(row) \o <<SEMICOLON>> \o Decimal(col) \o <<UPPER_H>>)
EraseInDisplay == Csi(<<50, 74>>)
EraseInLine == Csi(<<75>>)
HideCursor == Csi(<<63, 50, 53, 108>>)
ShowCursor == Csi(<<63, 50, 53, 104>>)

\* "Kilo editor -- version "
WelcomePrefix ==
  <<75, 105, 108, 111, 32, 101, 100, 105, 116, 111, 114, 32, 45, 45, 32,
    118, 101, 114, 115, 105, 111, 110, 32>>
\* env!("CARGO_PKG_VERSION"): the package version; "0.1.0" stands for it
VERSION == <<48, 46, 49, 46, 48>>
Welcome == WelcomePrefix \o VERSION

RECURSIVE Spaces(_)
Spaces(n) == IF n <= 0 THEN << >> ELSE <<32>> \o Spaces(n - 1)

\* Editor::draw_rows, lines 82-93: the welcome line
WelcomeLine(cols) ==
  LET len == Min(Len(Welcome), cols)
      padding == (cols - len) \div 2
  IN (IF padding > 0 THEN <<TILDE>> \o Spaces(padding - 1) ELSE << >>)
     \o SubSeq(Welcome, 1, len)

\* Editor::draw_rows, lines 81-104: what one pass of the loop appends
DrawRow(y, lines, srows, scols) ==
  (IF y >= Len(lines)
   THEN IF lines = << >> /\ y = srows \div 3 THEN WelcomeLine(scols) ELSE <<TILDE>>
   ELSE SubSeq(lines[y + 1], 1, Min(Len(lines[y + 1]), scols)))
  \o EraseInLine
  \o (IF y < srows - 1 THEN <<13, 10>> ELSE << >>)

RECURSIVE DrawRows(_, _, _, _)
\* Editor::draw_rows: the passes y, y + 1, .., screen_rows - 1
DrawRows(y, lines, srows, scols) ==
  IF y >= srows THEN << >>
  ELSE DrawRow(y, lines, srows, scols) \o DrawRows(y + 1, lines, srows, scols)

\* a refresh_screen without hide_cursor() and show_cursor()
RefreshFrame_NoBracket(lines, srows, scols, crow, ccol, checks) ==
  LET r == UsizeAdd(crow, 1, checks)
      c == UsizeAdd(ccol, 1, checks)
  IN IF r = << >> \/ c = << >> THEN << >>
     ELSE <<CursorHome \o DrawRows(0, lines, srows, scols)
            \o CursorPosition(r[1], c[1])>>

\* Editor::refresh_screen, lines 109-118: the frame, << >> for a panic in
\* cursor_row + 1 or cursor_col + 1
RefreshFrame(lines, srows, scols, crow, ccol, checks) ==
  LET r == UsizeAdd(crow, 1, checks)
      c == UsizeAdd(ccol, 1, checks)
  IN IF r = << >> \/ c = << >> THEN << >>
     ELSE <<HideCursor \o CursorHome \o DrawRows(0, lines, srows, scols)
            \o CursorPosition(r[1], c[1]) \o ShowCursor>>

\* Editor::run, lines 143-145: the frame written on Ctrl-Q
QuitFrame == EraseInDisplay \o CursorHome

\* a begin that keeps what the buffer held
Begin_Keep(b) == b

\* Terminal::begin: self.buf = String::new()
Begin(b) == << >>

\* the append operations of Terminal: self.buf.push_str(s)
PushStr(b, s) == b \o s

(***************************************************************************)
(* Editor::move_cursor and the key dispatch of Editor::run.  A cursor is    *)
(* <<row, col>>; << >> stands for a panic.                                  *)
(***************************************************************************)
\* Editor::move_cursor
MoveCursor(k, cur, srows, scols, checks) ==
  CASE k = KeyLeft -> <<<<cur[1], IF cur[2] # 0 THEN cur[2] - 1 ELSE cur[2]>>>>
    [] k = KeyRight ->
         LET last == UsizeSub(scols, 1, checks)
         IN IF last = << >> THEN << >>
            ELSE <<<<cur[1], IF cur[2] # last[1] THEN cur[2] + 1 ELSE cur[2]>>>>
    [] k = KeyUp -> <<<<IF cur[1] # 0 THEN cur[1] - 1 ELSE cur[1], cur[2]>>>>
    [] k = KeyDown ->
         LET last == UsizeSub(srows, 1, checks)
         IN IF last = << >> THEN << >>
            ELSE <<<<IF cur[1] # last[1] THEN cur[1] + 1 ELSE cur[1], cur[2]>>>>
    [] OTHER -> <<cur>>

RECURSIVE MoveTimes(_, _, _, _, _, _)
\* lines 131-138: move_cursor(k) times over
MoveTimes(times, k, cur, srows, scols, checks) ==
  IF times = 0 THEN <<cur>>
  ELSE LET one == MoveCursor(k, cur, srows, scols, checks)
       IN IF one = << >> THEN << >>
          ELSE MoveTimes(times - 1, k, one[1], srows, scols, checks)

\* lines 128-150, the arms that do not return: the cursor after key k
KeyCursor(k, cur, srows, scols, checks) ==
  CASE k \in {KeyUp, KeyDown, KeyRight, KeyLeft} ->
         MoveCursor(k, cur, srows, scols, checks)
    [] k = KeyPageUp -> MoveTimes(srows, KeyUp, cur, srows, scols, checks)
    [] k = KeyPageDown -> MoveTimes(srows, KeyDown, cur, srows, scols, checks)
    [] k = KeyHome -> <<<<cur[1], 0>>>>
    [] k = KeyEnd ->
         LET last == UsizeSub(scols, 1, checks)
         IN IF last = << >> THEN << >> ELSE <<<<cur[1], last[1]>>>>
    [] OTHER -> <<cur>>

(***************************************************************************)
(* What the environment supplies                                           *)
(***************************************************************************)
\* the lines of the file named on the command line
FileRows == {<< >>, <<<<97, 120, 97>>, << >>>>}

\* a field of a cursor-position report, as the terminal may send it
CprFields ==
  {<< >>, <<48>>, <<49>>, <<50>>, <<50, 52>>, <<56, 48>>, <<48, 49>>,
   <<PLUS, 50>>, <<120, 49>>, <<54, 53, 53, 51, 53>>,
   <<54, 53, 53, 51, 54>>, <<49, 50, 51, 52, 53, 54>>}
CprPrefixes == {<<ESC, LBRACKET>>, <<ESC, UPPER_O>>, <<LBRACKET>>}
CprSeparators == {<<SEMICOLON>>, << >>}
\* the report's end: R, nothing (the input times out), R and a typed key
CprEndings == {<<UPPER_R>>, << >>, <<UPPER_R, 97>>}

\* the bytes that arrive after the probe request, up to the first read
\* that returns nothing
CprArrivals ==
  {p \o f1 \o sep \o f2 \o e :
     p \in CprPrefixes, f1 \in CprFields, sep \in CprSeparators,
     f2 \in CprFields, e \in CprEndings}

(***************************************************************************)
(* State                                                                   *)
(***************************************************************************)
VARIABLES
  pc,               \* where main() is
  exit_cause,       \* why main() is ending
  overflow_checks,  \* the build: TRUE when arithmetic overflow panics
  termios,          \* the terminal's attributes
  tcset_log,        \* the tcsetattr calls made: [attrs, ok]
  orig,             \* Terminal.orig: << >> while no Terminal exists
  buf,              \* Terminal.buf
  out,              \* the last write to the terminal: [by, data]
  pending,          \* bytes that have arrived on stdin and are not yet read
  cpr,              \* the buffer get_cursor_position read, until Editor::new returns
  screen_rows, screen_cols, cursor_row, cursor_col,  \* Editor
  rows,             \* Editor.rows
  dstate,           \* read_key: the decoder's position
  consumed,         \* read_key: the bytes this invocation has consumed
  attempts,         \* read_key: the reads made since this invocation read ESC
  last_read,        \* read_key: the outcome of this invocation's latest read
  key,              \* what read_key returned: << >>, <<"Ok", k>>, <<"Err">>
  os_buf,           \* os.rs: Terminal.buf
  os_sys,           \* os.rs: the latest system call: [fn, len, res, errno, c]
  os_ret,           \* os.rs: what read() or write() returned after it
  os_sink           \* os.rs: the bytes that call handed to the terminal

vars ==
  <<pc, exit_cause, overflow_checks, termios, tcset_log, orig, buf, out,
    pending, cpr, screen_rows, screen_cols, cursor_row, cursor_col, rows,
    dstate, consumed, attempts, last_read, key,
    os_buf, os_sys, os_ret, os_sink>>

\* the variables of main.rs
program ==
  <<pc, exit_cause, overflow_checks, termios, tcset_log, orig, buf, out,
    pending, cpr, screen_rows, screen_cols, cursor_row, cursor_col, rows,
    dstate, consumed, attempts, last_read, key>>
\* the variables of os.rs
os == <<os_buf, os_sys, os_ret, os_sink>>

editor == <<screen_rows, screen_cols, cursor_row, cursor_col, rows>>
decoder == <<dstate, consumed, attempts, last_read, key>>
session == <<termios, tcset_log, orig>>

NoWrite == [by |-> "none", data |-> << >>]
NoCall == [fn |-> "none", len |-> 0, res |-> 0, errno |-> 0, c |-> 0]
NoReturn == <<"none", << >>>>

\* os.rs is a platform module main.rs does not use: nothing of it runs in
\* a run of main()
OsUnused ==
  os_buf = << >> /\ os_sys = NoCall /\ os_ret = NoReturn /\ os_sink = << >>

\* the record of the latest call is dropped when the buffer changes
OsForgetCall == os_sys' = NoCall /\ os_ret' = NoReturn /\ os_sink' = << >>

Init ==
  /\ pc = "new_raw_mode"
  /\ exit_cause = "none"
  /\ overflow_checks \in BOOLEAN
  /\ termios \in InitialTermios
  /\ tcset_log = << >>
  /\ orig = << >>
  /\ buf = << >>
  /\ out = NoWrite
  /\ pending = << >>
  /\ cpr = << >>
  /\ screen_rows = 0 /\ screen_cols = 0 /\ cursor_row = 0 /\ cursor_col = 0
  /\ rows = << >>
  /\ dstate = "first"
  /\ consumed = << >>
  /\ attempts = 0
  /\ last_read = << >>
  /\ key = << >>
  /\ OsUnused

(***************************************************************************)
(* Actions                                                                 *)
(***************************************************************************)
\* Terminal::new_raw_mode, called first by Editor::new
NewRawMode ==
  /\ pc = "new_raw_mode"
  /\ \E got \in BOOLEAN, set \in BOOLEAN :
       IF ~got
       THEN /\ set
            /\ pc' = "exited" /\ exit_cause' = "tcgetattr"
            /\ orig' = NewTerminal(got, set, termios)
            /\ UNCHANGED <<termios, tcset_log>>
       ELSE IF ~set
       THEN /\ pc' = "exited" /\ exit_cause' = "tcsetattr"
            /\ tcset_log' = Append(tcset_log, [attrs |-> MakeRaw(termios), ok |-> FALSE])
            /\ orig' = NewTerminal(got, set, termios)
            /\ UNCHANGED termios
       ELSE /\ pc' = "get_window_size" /\ exit_cause' = exit_cause
            /\ orig' = NewTerminal(got, set, termios)
            /\ termios' = MakeRaw(termios)
            /\ tcset_log' = Append(tcset_log, [attrs |-> MakeRaw(termios), ok |-> TRUE])
  /\ UNCHANGED <<os, overflow_checks, buf, out, pending, cpr, editor, decoder>>

\* Terminal::get_window_size: the TIOCGWINSZ ioctl; its failure leads to
\* the cursor-position probe
GetWindowSize ==
  /\ pc = "get_window_size"
  /\ \E ok \in BOOLEAN, ws_row \in 0..MaxDim, ws_col \in 0..MaxDim :
       IF ok
       THEN /\ pc' = "open"
            /\ screen_rows' = ws_row /\ screen_cols' = ws_col
            /\ cursor_row' = 0 /\ cursor_col' = 0 /\ rows' = << >>
       ELSE /\ ws_row = 0 /\ ws_col = 0
            /\ pc' = "probe"
            /\ UNCHANGED editor
  /\ UNCHANGED <<os, exit_cause, overflow_checks, session, buf, out, pending, cpr, decoder>>

\* vt100::get_cursor_position, then the rest of Editor::new.
\* io: "write" when write_all or flush fails, "read" when read_until fails.
\* arriving: the bytes that arrive before a read returns nothing; the
\* bytes read_until does not consume stay buffered in stdin.
GetCursorPosition ==
  /\ pc = "probe"
  /\ \E io \in {"ok", "write", "read"} :
       IF io # "ok"
       THEN /\ pc' = "drop" /\ exit_cause' = "geometry"
            /\ out' = IF io = "read" THEN [by |-> "probe", data |-> ProbeRequest] ELSE out
            /\ UNCHANGED <<pending, cpr, editor>>
       ELSE \E arriving \in CprArrivals :
              LET n == ReadUntilCount(arriving, UPPER_R, CprTakeLimit)
                  res == ParseCpr(SubSeq(arriving, 1, n))
              IN /\ out' = [by |-> "probe", data |-> ProbeRequest]
                 /\ cpr' = SubSeq(arriving, 1, n)
                 /\ pending' = SubSeq(arriving, n + 1, Len(arriving))
                 /\ IF res[1] = "Ok"
                    THEN /\ pc' = "open" /\ exit_cause' = exit_cause
                         /\ screen_rows' = res[2] /\ screen_cols' = res[3]
                         /\ cursor_row' = 0 /\ cursor_col' = 0 /\ rows' = << >>
                    ELSE /\ pc' = "drop"
                         /\ exit_cause' = IF res[1] = "Panic" THEN "panic" ELSE "geometry"
                         /\ UNCHANGED editor
  /\ UNCHANGED <<os, overflow_checks, session, buf, decoder>>

\* main, lines 436-439: Editor::open when a path was given.  The model
\* follows a run further only on a screen of at most MaxDim rows and columns
Open ==
  /\ pc = "open"
  /\ screen_rows <= MaxDim /\ screen_cols <= MaxDim
  /\ \E path \in BOOLEAN, opened \in BOOLEAN, lines \in FileRows :
       IF ~path
       THEN /\ opened /\ lines = << >>
            /\ pc' = "refresh" /\ UNCHANGED <<exit_cause, rows>>
       ELSE IF opened
       THEN /\ pc' = "refresh" /\ rows' = lines /\ UNCHANGED exit_cause
       ELSE /\ lines = << >>
            /\ pc' = "drop" /\ exit_cause' = "open" /\ UNCHANGED rows
  /\ cpr' = << >>
  /\ UNCHANGED <<os, overflow_checks, session, buf, out, pending, screen_rows,
                 screen_cols, cursor_row, cursor_col, decoder>>

\* Editor::refresh_screen, at the top of the loop of Editor::run
RefreshScreen ==
  /\ pc = "refresh"
  /\ LET frame == RefreshFrame(rows, screen_rows, screen_cols, cursor_row,
                               cursor_col, overflow_checks)
     IN \E written \in BOOLEAN :
          IF frame = << >>
          THEN /\ written
               /\ pc' = "drop" /\ exit_cause' = "panic"
               /\ buf' = PushStr(Begin(buf),
                                 HideCursor \o CursorHome
                                   \o DrawRows(0, rows, screen_rows, screen_cols))
               /\ UNCHANGED <<out, decoder>>
          ELSE /\ buf' = PushStr(Begin(buf), frame[1])
               /\ IF written
                  THEN /\ out' = [by |-> "end", data |-> buf']
                       /\ pc' = "read_key" /\ exit_cause' = exit_cause
                       /\ dstate' = "first" /\ consumed' = << >> /\ attempts' = 0
                       /\ last_read' = << >> /\ key' = << >>
                  ELSE /\ pc' = "drop" /\ exit_cause' = "end"
                       /\ UNCHANGED <<out, decoder>>
  /\ UNCHANGED <<os, overflow_checks, session, pending, cpr, editor>>

\* Terminal::read_key: one read of the underlying byte iterator and what
\* the filter and the decoder make of it.  A buffered byte is read first.
\* A read that changes nothing (a timeout or EAGAIN before the first byte)
\* leaves the state as it is: read_key goes on reading.
ReadKey ==
  /\ pc = "read_key"
  /\ \E o \in (IF pending # << >> THEN {<<"byte", Head(pending)>>} ELSE ReadOutcomes) :
       LET step == KeyStep(dstate, consumed, o)
       IN /\ pending' = IF pending # << >> THEN Tail(pending) ELSE pending
          /\ consumed' = IF o[1] = "byte" THEN Append(consumed, o[2]) ELSE consumed
          /\ attempts' = IF dstate # "first" THEN attempts + 1 ELSE attempts
          /\ last_read' = o
          /\ IF ~FilterKeeps(o)
             THEN /\ dstate # "first" => attempts - (Len(consumed) - 1) < MaxAgain
                  /\ UNCHANGED <<pc, exit_cause, dstate, key>>
             ELSE /\ dstate' = step.st
                  /\ key' = step.ret
                  /\ pc' = IF step.ret = << >> THEN "read_key"
                           ELSE IF step.ret[1] = "Ok" THEN "dispatch" ELSE "drop"
                  /\ exit_cause' = IF step.ret = <<"Err">> THEN "read_key" ELSE exit_cause
  /\ UNCHANGED <<os, overflow_checks, session, buf, out, cpr, editor>>

\* Editor::run, lines 128-150: the match on the key read_key returned
Dispatch ==
  /\ pc = "dispatch"
  /\ LET k == key[2]
         cur == KeyCursor(k, <<cursor_row, cursor_col>>, screen_rows, screen_cols,
                          overflow_checks)
     IN \E written \in BOOLEAN :
          IF k = KeyChar(CTRL_Q)
          THEN /\ buf' = PushStr(Begin(buf), QuitFrame)
               /\ out' = IF written THEN [by |-> "end", data |-> buf'] ELSE out
               /\ pc' = "drop" /\ exit_cause' = IF written THEN "quit" ELSE "end"
               /\ UNCHANGED <<cursor_row, cursor_col>>
          ELSE IF cur = << >>
          THEN /\ written
               /\ pc' = "drop" /\ exit_cause' = "panic"
               /\ UNCHANGED <<buf, out, cursor_row, cursor_col>>
          ELSE /\ written
               /\ cur[1][1] \in 0..MaxCursor \cup {UsizeMax}
               /\ cur[1][2] \in 0..MaxCursor \cup {UsizeMax}
               /\ cursor_row' = cur[1][1] /\ cursor_col' = cur[1][2]
               /\ pc' = "refresh" /\ UNCHANGED <<exit_cause, buf, out>>
  /\ dstate' = "first" /\ consumed' = << >> /\ attempts' = 0
  /\ last_read' = << >> /\ key' = << >>
  /\ UNCHANGED <<os, overflow_checks, session, pending, cpr, screen_rows, screen_cols, rows>>

\* impl Drop for Terminal: the Terminal goes out of scope in Editor::new
\* or in main, or a panic unwinds through them; unwrap() panics when
\* tcsetattr fails
DropTerminal ==
  /\ pc = "drop"
  /\ \E set \in BOOLEAN :
       /\ tcset_log' = Append(tcset_log, [attrs |-> DropAttrs(orig[1]), ok |-> set])
       /\ termios' = IF set THEN DropAttrs(orig[1]) ELSE termios
       /\ pc' = IF set THEN "exited" ELSE "panicked"
  /\ UNCHANGED <<os, exit_cause, overflow_checks, orig, buf, out, pending, cpr, editor, decoder>>

Next ==
  \/ NewRawMode
  \/ GetWindowSize
  \/ GetCursorPosition
  \/ Open
  \/ RefreshScreen
  \/ ReadKey
  \/ Dispatch
  \/ DropTerminal

Spec == Init /\ [][Next]_vars

(***************************************************************************)
(* src/src/os.rs: the primitives read() and write(), and the frame buffer  *)
(* of its Terminal, whose end() is write(&self.buf).  A Result is           *)
(* <<"Ok", v>> or <<"Err", <<errno>>>>, with v = << >> for () and for None *)
(* and v = <<c>> for Some(c).                                               *)
(***************************************************************************)
EAGAIN == 11
\* the errno values a failing read or write leaves: EAGAIN, EINTR (4),
\* EIO (5)
OsErrnos == {EAGAIN, 4, 5}

\* a read() for which EAGAIN is an error like any other
OsReadResult_EagainFails(res, errno, c) ==
  CASE res = 1 -> <<"Ok", <<c>>>>
    [] res = 0 -> <<"Ok", << >>>>
    [] OTHER -> <<"Err", <<errno>>>>

\* read(), lines 40-45: the match on what libc::read returned
OsReadResult(res, errno, c) ==
  CASE res = 1 -> <<"Ok", <<c>>>>
    [] res = 0 -> <<"Ok", << >>>>
    [] res = -1 /\ errno = EAGAIN -> <<"Ok", << >>>>
    [] OTHER -> <<"Err", <<errno>>>>

\* write(), lines 79-82: the match on what libc::write returned
OsWriteResult(res, errno) ==
  IF res = -1 THEN <<"Err", <<errno>>>> ELSE <<"Ok", << >>>>

\* what the append operations of os.rs's Terminal push
OsPieces ==
  {HideCursor, ShowCursor, CursorHome, EraseInLine, EraseInDisplay, <<TILDE>>}

OsInit ==
  /\ pc = "os"
  /\ exit_cause = "none"
  /\ overflow_checks = TRUE
  /\ termios = CookedTermios
  /\ tcset_log = << >>
  /\ orig = << >>
  /\ buf = << >>
  /\ out = NoWrite
  /\ pending = << >>
  /\ cpr = << >>
  /\ screen_rows = 0 /\ screen_cols = 0 /\ cursor_row = 0 /\ cursor_col = 0
  /\ rows = << >>
  /\ dstate = "first"
  /\ consumed = << >>
  /\ attempts = 0
  /\ last_read = << >>
  /\ key = << >>
  /\ OsUnused

\* os.rs Terminal::begin
OsBegin ==
  /\ pc = "os"
  /\ os_buf # << >>
  /\ os_buf' = << >>
  /\ OsForgetCall
  /\ UNCHANGED program

\* os.rs Terminal::erase_in_display .. push_str
OsAppend ==
  /\ pc = "os"
  /\ \E piece \in OsPieces :
       /\ Len(os_buf) + Len(piece) <= MaxOsBuf
       /\ os_buf' = os_buf \o piece
  /\ OsForgetCall
  /\ UNCHANGED program

\* os.rs Terminal::end: write(&self.buf), which makes one libc::write call;
\* the system takes res of the buffer's bytes, or fails with -1
OsEnd ==
  /\ pc = "os"
  /\ \E res \in -1..Len(os_buf), errno \in OsErrnos :
       /\ res # -1 => errno = EAGAIN
       /\ os_sys' = [fn |-> "write", len |-> Len(os_buf), res |-> res,
                     errno |-> IF res = -1 THEN errno ELSE 0, c |-> 0]
       /\ os_sink' = IF res = -1 THEN << >> ELSE SubSeq(os_buf, 1, res)
       /\ os_ret' = OsWriteResult(res, errno)
  /\ UNCHANGED <<program, os_buf>>

\* os.rs read(): one libc::read of 1 byte
OsRead ==
  /\ pc = "os"
  /\ \E res \in {-1, 0, 1}, errno \in OsErrnos, c \in Bytes :
       /\ res # -1 => errno = EAGAIN
       /\ res # 1 => c = ESC
       /\ os_sys' = [fn |-> "read", len |-> 1, res |-> res,
                     errno |-> IF res = -1 THEN errno ELSE 0,
                     c |-> IF res = 1 THEN c ELSE 0]
       /\ os_ret' = OsReadResult(res, errno, c)
  /\ os_sink' = << >>
  /\ UNCHANGED <<program, os_buf>>

OsNext ==
  \/ OsBegin
  \/ OsAppend
  \/ OsEnd
  \/ OsRead

OsSpec == OsInit /\ [][OsNext]_vars

(***************************************************************************)
(* Properties                                                              *)
(***************************************************************************)
\* the first n bytes the current read_key invocation consumed are seq
ConsumedStarts(seq) ==
  Len(consumed) >= Len(seq) /\ SubSeq(consumed, 1, Len(seq)) = seq

\* read_key has returned Ok(k), and Editor::run has not yet matched on it
Returned(k) == pc = "dispatch" /\ key = <<"Ok", k>>

\* the ways of ending that follow a successful new_raw_mode: Ctrl-Q, a
\* failing get_window_size or probe, a failing open, an error from
\* read_key, an error from end
ListedEndings == {"quit", "geometry", "open", "read_key", "end"}

\* C1: once new_raw_mode has succeeded, whichever of these ways main()
\* comes to its end, the Terminal is dropped, and when the program has
\* ended the terminal's attributes are the snapshot tcgetattr gave at
\* construction, written by the last tcsetattr call; what a teardown hands
\* to tcsetattr is never anything else.  (A teardown whose tcsetattr itself
\* fails ends in the panic of unwrap(), pc = "panicked", with the
\* attributes as they were: the call's argument is the snapshot then too.)
C1_SnapshotRestoredOnEveryExit ==
  /\ (pc = "exited" /\ orig # << >> /\ exit_cause \in ListedEndings) =>
       /\ orig[1] \in InitialTermios
       /\ termios = orig[1]
       /\ tcset_log[Len(tcset_log)] = [attrs |-> orig[1], ok |-> TRUE]
  /\ (pc = "panicked" /\ exit_cause \in ListedEndings) =>
       tcset_log[Len(tcset_log)] = [attrs |-> orig[1], ok |-> FALSE]
  /\ exit_cause \in ListedEndings =>
       orig # << >> /\ pc \in {"drop", "exited", "panicked"}

\* a failing probe inside Editor::new has ended the program, and the
\* attributes, which raw mode had changed, are the snapshot again
C1_Witness ==
  /\ pc = "exited" /\ exit_cause = "geometry"
  /\ orig # << >> /\ termios = orig[1] /\ MakeRaw(orig[1]) # orig[1]
  /\ Len(tcset_log) = 2 /\ tcset_log[1].attrs = MakeRaw(orig[1])

ArrowSequences ==
  {<<<<ESC, LBRACKET, UPPER_A>>, KeyUp>>, <<<<ESC, LBRACKET, UPPER_B>>, KeyDown>>,
   <<<<ESC, LBRACKET, UPPER_C>>, KeyRight>>, <<<<ESC, LBRACKET, UPPER_D>>, KeyLeft>>,
   <<<<ESC, LBRACKET, UPPER_H>>, KeyHome>>, <<<<ESC, LBRACKET, UPPER_F>>, KeyEnd>>,
   <<<<ESC, UPPER_O, UPPER_H>>, KeyHome>>, <<<<ESC, UPPER_O, UPPER_F>>, KeyEnd>>}

\* C2: when the bytes an invocation of read_key consumes start with
\* ESC [ A, ESC [ B, ESC [ C, ESC [ D, ESC [ H, ESC [ F, ESC O H or
\* ESC O F, the invocation has returned Up, Down, Right, Left, Home, End,
\* Home, End respectively and has consumed those 3 bytes and no more.
C2_ThreeByteSequences ==
  \A p \in ArrowSequences :
    ConsumedStarts(p[1]) => Returned(p[2]) /\ consumed = p[1]

C2_Witness == Returned(KeyUp) /\ consumed = <<ESC, LBRACKET, UPPER_A>>

TildeSequences ==
  {<<49, KeyHome>>, <<55, KeyHome>>, <<51, KeyDelete>>, <<52, KeyEnd>>,
   <<56, KeyEnd>>, <<53, KeyPageUp>>, <<54, KeyPageDown>>}

\* C3: when the bytes an invocation of read_key consumes start with
\* ESC [ d ~, the invocation has returned Home for d in {1, 7}, Delete for
\* 3, End for d in {4, 8}, PageUp for 5, PageDown for 6, and has consumed
\* those 4 bytes and no more.
C3_DigitTildeSequences ==
  \A p \in TildeSequences :
    ConsumedStarts(<<ESC, LBRACKET, p[1], TILDE>>) =>
      Returned(p[2]) /\ Len(consumed) = 4

C3_Witness == Returned(KeyDelete) /\ consumed = <<ESC, LBRACKET, 51, TILDE>>

\* C4: when read_key has read ESC and the next read yields no byte (a
\* zero-length read), the invocation has returned a bare Escape; when the
\* byte after ESC is neither '[' nor 'O' it has returned a bare Escape too,
\* having consumed those 2 bytes.
C4_BareEscape ==
  /\ (consumed = <<ESC>> /\ last_read = <<"eof">>) => Returned(KeyEscape)
  /\ (Len(consumed) >= 2 /\ consumed[1] = ESC /\ consumed[2] \notin {LBRACKET, UPPER_O})
       => Returned(KeyEscape) /\ Len(consumed) = 2

C4_Witness == Returned(KeyEscape) /\ consumed = <<ESC>> /\ last_read = <<"eof">>

\* C5: when the first byte an invocation of read_key reads is not ESC, the
\* invocation has returned Char of that byte and consumed that 1 byte.
C5_Literal ==
  (consumed # << >> /\ consumed[1] # ESC) =>
    Returned(KeyChar(consumed[1])) /\ Len(consumed) = 1

C5_Witness == Returned(KeyChar(97)) /\ consumed = <<97>>

\* the invocation has consumed ESC [ d and one more byte, and d ~ names no
\* key: d is unmapped, or the byte after d is not '~'
UnmappedOrMalformed ==
  /\ Len(consumed) >= 4
  /\ consumed[1] = ESC /\ consumed[2] = LBRACKET /\ consumed[3] \in Digits
  /\ consumed[3] \in {48, 50, 57} \/ consumed[4] # TILDE

\* C6 as stated: ESC [ d ~ with d in {0, 2, 9}, or ESC [ d x with x not '~',
\* yields no event: the event the invocation returns comes from bytes after
\* the dropped sequence.
C6_Original_SequenceDropped ==
  (pc = "dispatch" /\ UnmappedOrMalformed) => Len(consumed) > 4

\* C6 as the code has it: ESC [ d ~ with d in {0, 2, 9}, or ESC [ d x with
\* x not '~', yields one bare Escape event, returned by the invocation that
\* consumed those 4 bytes, which consumes no more.
C6_UnmatchedIsEscape ==
  UnmappedOrMalformed => Returned(KeyEscape) /\ Len(consumed) = 4

C6_Witness == Returned(KeyEscape) /\ consumed = <<ESC, LBRACKET, 48, TILDE>>

\* C7 as stated: the decoder accumulates the digits of ESC [ d1 .. dn ~
\* until it reads '~': no invocation returns while all it has consumed after
\* ESC [ is two or more digits.
C7_Original_DigitsAccumulated ==
  ~ /\ pc = "dispatch"
    /\ Len(consumed) >= 4
    /\ consumed[1] = ESC /\ consumed[2] = LBRACKET
    /\ \A i \in 3..Len(consumed) : consumed[i] \in Digits

\* C7 as the code has it: after ESC [ the decoder reads one digit and one
\* more byte and returns: it consumes the whole of ESC [ d ~ (4 bytes), and
\* on ESC [ d1 d2 it returns a bare Escape having consumed those 4 bytes,
\* so that what follows d2, the '~' included, is left to later invocations.
C7_OneDigitOnly ==
  ConsumedStarts(<<ESC, LBRACKET>>) /\ Len(consumed) >= 4 /\ consumed[3] \in Digits =>
    /\ pc = "dispatch" /\ Len(consumed) = 4
    /\ consumed[4] \in Digits => key = <<"Ok", KeyEscape>>
    /\ consumed[4] = TILDE => key \in {<<"Ok", KeyEscape>>, <<"Ok", TildeKey(consumed[3])>>}

C7_Witness == Returned(KeyEscape) /\ consumed = <<ESC, LBRACKET, 49, 53>>

\* C8 as stated: once an invocation of read_key has read ESC, it makes at
\* most 3 more reads, and a read that reports that nothing arrived (a
\* zero-length read or EAGAIN) ends the sequence: the invocation is never
\* still reading after such a read.
C8_ContinuationNeverRetried ==
  /\ attempts <= 3
  /\ (pc = "read_key" /\ dstate # "first") =>
       last_read[1] = "byte" /\ attempts = Len(consumed) - 1

\* C9 as stated: every geometry get_window_size returns successfully, as
\* Editor::new receives it, has rows >= 1 and cols >= 1.
C9_GeometryPositive ==
  pc = "open" => screen_rows >= 1 /\ screen_cols >= 1

\* C10 as stated: get_cursor_position returns a geometry only from a
\* response that ends with the terminator 'R'.
C10_TruncatedResponseRejected ==
  (pc = "open" /\ cpr # << >>) => cpr[Len(cpr)] = UPPER_R

\* C10, its own example: the response ESC [ 2 4 ; 8 0 with no R is never
\* accepted (the code accepts it, as rows 24 and cols 8)
C10_Example_24_80 ==
  ~(pc = "open" /\ cpr = <<ESC, LBRACKET, 50, 52, SEMICOLON, 56, 48>>)

\* the rows field of a response: the bytes between ESC [ and the first ';'
RowsField(b) == SubSeq(b, 3, FirstIndex(b, SEMICOLON) - 1)

\* the cols field of a response: the bytes after the first ';', without the
\* terminator when the response ends with one
ColsField(b) ==
  SubSeq(b, FirstIndex(b, SEMICOLON) + 1,
         IF b[Len(b)] = UPPER_R THEN Len(b) - 1 ELSE Len(b))

\* a field that is empty or holds a byte that is not a digit
BadField(f) == f = << >> \/ \E i \in 1..Len(f) : f[i] \notin Digits

\* the malformations claim C11 lists
Malformed(b) ==
  \/ Len(b) < 5 \/ Len(b) > 13
  \/ b[1] # ESC \/ b[2] # LBRACKET
  \/ FirstIndex(b, SEMICOLON) = 0
  \/ BadField(RowsField(b))
  \/ BadField(ColsField(b))

\* C11 as stated: whenever the response get_cursor_position read has a
\* first two bytes other than ESC '[', or no ';', or a rows or cols field
\* that is empty or holds a non-digit byte, or is shorter than 5 or longer
\* than 13 bytes, get_cursor_position has failed with an error: Editor::new
\* has received no geometry and the program is ending on that error.
C11_MalformedResponseRejected ==
  (cpr # << >> /\ Malformed(cpr)) => exit_cause = "geometry"

\* C11, one malformation by itself: a field with a non-digit byte is never
\* accepted (the code accepts ESC [ + 2 ; 1 R as rows 2, cols 1)
C11_Example_PlusSign ==
  ~(pc = "open" /\ cpr = <<ESC, LBRACKET, PLUS, 50, SEMICOLON, 49, UPPER_R>>)

\* C11, another: a response with an empty cols field never makes
\* get_cursor_position panic (ESC [ 2 4 ; does)
C11_Example_EmptyColsPanics ==
  ~(exit_cause = "panic" /\ cpr = <<ESC, LBRACKET, 50, 52, SEMICOLON>>)

\* a decimal number of 1 to 5 digits with value at most 65535
U16Field(f) ==
  /\ Len(f) \in 1..5
  /\ \A i \in 1..Len(f) : f[i] \in Digits
  /\ DigitsValue(f, 0) <= U16Max

\* a well-formed response ESC [ rows ; cols R
WellFormed(b) ==
  /\ Len(b) >= 6
  /\ b[1] = ESC /\ b[2] = LBRACKET /\ b[Len(b)] = UPPER_R
  /\ FirstIndex(b, SEMICOLON) # 0
  /\ U16Field(RowsField(b))
  /\ U16Field(ColsField(b))

\* C12 as stated: whenever the response get_cursor_position read is
\* well-formed, ESC [ rows ; cols R with fields of 1 to 5 digits and value
\* at most 65535, get_cursor_position has returned Ok, and the geometry
\* Editor::new holds is exactly (rows, cols), rows from the field before
\* ';' and cols from the field after it.
C12_WellFormedResponseParsed ==
  (cpr # << >> /\ WellFormed(cpr)) =>
    /\ pc = "open"
    /\ screen_rows = DigitsValue(RowsField(cpr), 0)
    /\ screen_cols = DigitsValue(ColsField(cpr), 0)

\* C12 for the responses the length test lets through: a well-formed
\* response of at most 13 bytes gives exactly (rows, cols)
C12_UpTo13Bytes ==
  (cpr # << >> /\ WellFormed(cpr) /\ Len(cpr) <= 13) =>
    /\ pc = "open"
    /\ screen_rows = DigitsValue(RowsField(cpr), 0)
    /\ screen_cols = DigitsValue(ColsField(cpr), 0)

\* C12, its own example: ESC [ 2 4 ; 8 0 R has given rows 24, cols 80
C12_Example_24_80R ==
  /\ pc = "open" /\ screen_rows = 24 /\ screen_cols = 80
  /\ cpr = <<ESC, LBRACKET, 50, 52, SEMICOLON, 56, 48, UPPER_R>>

\* the frame refresh_screen appends for the editor as it is now
CurrentFrame ==
  RefreshFrame(rows, screen_rows, screen_cols, cursor_row, cursor_col,
               overflow_checks)

\* C13: what end() has written is the whole buffer, and the buffer is
\* exactly what was appended, in call order, since the most recent begin():
\* after refresh_screen it is hide-cursor, home, the rows, the cursor
\* position, show-cursor for the editor's present state, and after Ctrl-Q
\* it is erase-display, home; nothing of an earlier frame is in it.  A
\* buffer that differs from the last write is one whose frame was begun
\* and never written (a panic between begin() and end(), or a failing
\* end()): the terminal received nothing of it.
C13_FrameIsWhatWasAppended ==
  /\ pc = "read_key" =>
       /\ out = [by |-> "end", data |-> buf]
       /\ buf = CurrentFrame[1]
  /\ exit_cause = "quit" =>
       /\ out = [by |-> "end", data |-> buf]
       /\ buf = EraseInDisplay \o CursorHome
  /\ (out.by = "end" /\ out.data # buf) => exit_cause \in {"panic", "end"}
  /\ (out.by # "end" /\ buf # << >>) => exit_cause \in {"panic", "end"}

\* a second frame has been written, after the cursor moved: the frame
\* before it was a different one
C13_Witness ==
  /\ pc = "read_key" /\ cursor_col = 1 /\ rows # << >>
  /\ out = [by |-> "end", data |-> CurrentFrame[1]]

StartsWith(s, p) == Len(s) >= Len(p) /\ SubSeq(s, 1, Len(p)) = p
EndsWith(s, p) == Len(s) >= Len(p) /\ SubSeq(s, Len(s) - Len(p) + 1, Len(s)) = p

\* C14 as stated: every frame end() has written, the one written on
\* Ctrl-Q included, starts with hide-cursor and finishes with show-cursor.
C14_Original_EveryFrameBracketed ==
  out.by = "end" =>
    StartsWith(out.data, HideCursor) /\ EndsWith(out.data, ShowCursor)

\* C14 as the code has it: every frame refresh_screen has written starts
\* with hide-cursor (ESC [ ? 2 5 l) and finishes with show-cursor
\* (ESC [ ? 2 5 h), with the home, the rows and the cursor position between
\* them; the frame written on Ctrl-Q is erase-display, home and nothing
\* else: it has neither hide-cursor nor show-cursor.
C14_RefreshFramesBracketed ==
  /\ (out.by = "end" /\ exit_cause # "quit") =>
       /\ StartsWith(out.data, HideCursor \o CursorHome)
       /\ EndsWith(out.data, ShowCursor)
       /\ Len(out.data) > Len(HideCursor) + Len(CursorHome) + Len(ShowCursor)
  /\ exit_cause = "quit" =>
       /\ out = [by |-> "end", data |-> EraseInDisplay \o CursorHome]
       /\ ~StartsWith(out.data, HideCursor) /\ ~EndsWith(out.data, ShowCursor)

\* refresh_screen has written a frame of a file's rows, and it is
\* bracketed
C14_Witness ==
  /\ pc = "read_key" /\ rows # << >> /\ screen_rows = 2
  /\ out.by = "end"
  /\ StartsWith(out.data, HideCursor) /\ EndsWith(out.data, ShowCursor)

\* the Ctrl-Q frame has been written, with no bracket
C14_QuitFrameWritten ==
  /\ exit_cause = "quit" /\ out = [by |-> "end", data |-> QuitFrame]

\* C15 as stated: every write the program has made to the terminal was
\* made by end(): none by anything outside a begin/end bracket.
C15_Original_AllWritesByEnd == out.by \in {"none", "end"}

\* C15 as the code has it: the one write made outside a begin/end bracket
\* is the probe request, ESC [ 9 9 9 C ESC [ 9 9 9 B ESC [ 6 n, which
\* get_cursor_position writes itself, before any frame is begun and only
\* when the ioctl has failed; once end() has written a frame, every later
\* write is made by end().
C15_OnlyTheProbeIsOutside ==
  /\ [](out.by = "probe" =>
          /\ out.data = <<ESC, LBRACKET, 57, 57, 57, UPPER_C,
                          ESC, LBRACKET, 57, 57, 57, UPPER_B,
                          ESC, LBRACKET, 54, 110>>
          /\ pc \notin {"new_raw_mode", "get_window_size", "probe",
                        "read_key", "dispatch"})
  /\ [][/\ out.by = "end" => out'.by = "end"
        /\ (out'.by = "probe" /\ out' # out) => (pc = "probe" /\ buf = << >>)
        /\ (out'.by = "end" /\ out' # out) => out'.data = buf']_vars

\* the geometry came from the probe, whose request was written outside a
\* bracket, and the first frame has not been written yet
C15_Witness ==
  /\ pc = "refresh" /\ out = [by |-> "probe", data |-> ProbeRequest]
  /\ buf = << >> /\ screen_rows = 2

\* raw-mode attributes: no echo, no line input, no signals, no input or
\* output processing, 8-bit characters, reads that time out after 1/10 s
IsRaw(t) ==
  /\ t.lflag \cap {"ECHO", "ICANON", "IEXTEN", "ISIG"} = {}
  /\ t.iflag \cap {"BRKINT", "ICRNL", "INPCK", "ISTRIP", "IXON"} = {}
  /\ "OPOST" \notin t.oflag
  /\ CS8 \subseteq t.cflag
  /\ t.vmin = 0 /\ t.vtime = 1

\* C16: in a run whose new_raw_mode succeeded, tcsetattr is called exactly
\* twice: first with the raw-mode attributes, in new_raw_mode, and then,
\* when the Terminal is dropped, with the snapshot; the second call is made
\* when the program is ending and not before, and after it the program
\* takes no further step: it writes no frame and reads no input.  (The
\* second call is the restoring write whether or not the system accepts
\* it; when it fails, unwrap() panics and the program ends all the same.)
C16_TwoAttributeWritesRestoreLast ==
  /\ [](orig # << >> =>
          /\ Len(tcset_log) \in 1..2
          /\ tcset_log[1].ok /\ IsRaw(tcset_log[1].attrs)
          /\ tcset_log[1].attrs # orig[1]
          /\ Len(tcset_log) = 2 <=> pc \in {"exited", "panicked"}
          /\ Len(tcset_log) = 2 =>
               /\ tcset_log[2].attrs = orig[1]
               /\ tcset_log[2].ok <=> pc = "exited")
  /\ [][Len(tcset_log) >= 2 => FALSE]_vars

\* Ctrl-Q has ended a run: the final frame was written, then the snapshot
\* was written back, as the second and last tcsetattr call
C16_Witness ==
  /\ pc = "exited" /\ exit_cause = "quit" /\ out.by = "end"
  /\ Len(tcset_log) = 2
  /\ tcset_log[2] = [attrs |-> orig[1], ok |-> TRUE]

\* C17: when tcgetattr fails, or tcsetattr fails to apply the raw
\* attributes, new_raw_mode has returned the error and the program has
\* ended: no Terminal exists, no frame was begun or written, no key was
\* read, the terminal's attributes are as they were, and tcsetattr was not
\* called to restore anything: it was not called at all when tcgetattr
\* failed, and only the one failed call with the raw attributes was made
\* otherwise.  Nothing is done afterwards.
C17_FailedStartupLeavesNoSession ==
  /\ [](exit_cause \in {"tcgetattr", "tcsetattr"} =>
          /\ pc = "exited"
          /\ orig = << >>
          /\ out = NoWrite /\ buf = << >>
          /\ consumed = << >> /\ last_read = << >> /\ key = << >>
          /\ termios \in InitialTermios
          /\ Len(tcset_log) = (IF exit_cause = "tcgetattr" THEN 0 ELSE 1)
          /\ \A i \in 1..Len(tcset_log) :
               ~tcset_log[i].ok /\ tcset_log[i].attrs = MakeRaw(termios))
  /\ [][(exit_cause \in {"tcgetattr", "tcsetattr"}) => FALSE]_vars

\* applying the raw attributes has failed on a terminal raw mode would
\* have changed
C17_Witness ==
  /\ pc = "exited" /\ exit_cause = "tcsetattr" /\ orig = << >>
  /\ termios = CookedTermios
  /\ tcset_log = <<[attrs |-> MakeRaw(CookedTermios), ok |-> FALSE]>>

\* C18 as stated: write(buf) returns Ok only when every byte of buf has
\* been written: it never returns Ok after a partial write.
C18_Original_WriteCompleteOrFails ==
  (os_sys.fn = "write" /\ os_ret[1] = "Ok") => os_sink = os_buf

\* C18, what the code does: write(buf) makes one libc::write call and
\* returns Ok for whatever count it returns: the terminal has taken
\* exactly that many bytes of buf, the first res of them
C18_OneWriteCall ==
  os_sys.fn = "write" =>
    /\ os_ret[1] = "Ok" <=> os_sys.res >= 0
    /\ os_ret[1] = "Ok" => os_sink = SubSeq(os_buf, 1, os_sys.res)

\* C19: read() has returned Some(c) when libc::read read one byte c; None,
\* and no error, when libc::read read nothing, whether it returned 0 or
\* failed with EAGAIN; and an error exactly when libc::read failed with
\* another errno, which the error carries.
C19_ReadTimeoutIsNone ==
  os_sys.fn = "read" =>
    /\ os_sys.res = 1 => os_ret = <<"Ok", <<os_sys.c>>>>
    /\ os_sys.res = 0 => os_ret = <<"Ok", << >>>>
    /\ (os_sys.res = -1 /\ os_sys.errno = EAGAIN) => os_ret = <<"Ok", << >>>>
    /\ (os_sys.res = -1 /\ os_sys.errno # EAGAIN) =>
         os_ret = <<"Err", <<os_sys.errno>>>>
    /\ os_ret[1] = "Err" => (os_sys.res = -1 /\ os_sys.errno # EAGAIN)

\* libc::read has failed with EAGAIN and read() has returned None
C19_Witness ==
  /\ os_sys = [fn |-> "read", len |-> 1, res |-> -1, errno |-> EAGAIN, c |-> 0]
  /\ os_ret = <<"Ok", << >>>>

\* Editor::run is running: between Editor::open and the end of run
Running == pc \in {"refresh", "read_key", "dispatch"}

\* a panic inside Editor::run (the probe's panic happens in Editor::new,
\* with the response still held)
PanickedInRun == exit_cause = "panic" /\ cpr = << >>

\* C20 as stated: while Editor::run is running, screen_rows - 1 and
\* screen_cols - 1 do not underflow, cursor_row <= screen_rows - 1 and
\* cursor_col <= screen_cols - 1; and run never panics on the arithmetic.
C20_CursorOnScreen ==
  /\ Running =>
       /\ screen_rows >= 1 /\ screen_cols >= 1
       /\ cursor_row <= screen_rows - 1
       /\ cursor_col <= screen_cols - 1
  /\ ~PanickedInRun

\* C20 on a geometry with rows >= 1 and cols >= 1: the cursor stays on the
\* screen and run does not panic
C20_OnPositiveGeometry ==
  (screen_rows >= 1 /\ screen_cols >= 1) =>
    /\ Running =>
         cursor_row <= screen_rows - 1 /\ cursor_col <= screen_cols - 1
    /\ ~PanickedInRun

\* C20: on a screen of 0 columns, in a build without overflow checks, the
\* cursor has moved right of column 0
C20_Example_OffScreen ==
  ~(Running /\ ~overflow_checks /\ screen_cols = 0 /\ cursor_col = 1)

\* C20: on a screen of 0 columns, in a build with overflow checks, run has
\* panicked in screen_cols - 1
C20_Example_Underflow ==
  ~(PanickedInRun /\ overflow_checks /\ screen_cols = 0 /\ screen_rows = 1)

\* Editor::run has ended: refresh_screen, read_key or the Ctrl-Q arm has
\* returned, or run has panicked
RunEnded ==
  exit_cause \in {"quit", "end", "read_key"} \/ PanickedInRun

C21_Example_QuitFlushFails ==
  ~(screen_rows >= 1 /\ screen_cols >= 1 /\ exit_cause = "end" /\ buf = QuitFrame)

\* what claim C22 says the match on key k leaves in the cursor
PagingEffect(k) ==
  CASE k = KeyPageUp -> cursor_row' = 0 /\ cursor_col' = cursor_col
    [] k = KeyPageDown ->
         cursor_row' = screen_rows - 1 /\ cursor_col' = cursor_col
    [] k = KeyHome -> cursor_col' = 0 /\ cursor_row' = cursor_row
    [] k = KeyEnd ->
         cursor_col' = screen_cols - 1 /\ cursor_row' = cursor_row
    [] k \in {KeyEscape, KeyDelete} -> UNCHANGED <<cursor_row, cursor_col>>
    [] k[1] = "Char" /\ k # <<"Char", 17>> -> UNCHANGED <<cursor_row, cursor_col>>
    [] OTHER -> TRUE

\* C22 as stated: the match of Editor::run on a PageUp leaves cursor_row
\* = 0, on a PageDown cursor_row = screen_rows - 1, both with cursor_col
\* unchanged; on a Home cursor_col = 0, on an End cursor_col =
\* screen_cols - 1, both with cursor_row unchanged; on Escape, Delete and
\* every Char other than Ctrl-Q it leaves the cursor unchanged.
C22_PagingKeys ==
  [][pc = "dispatch" => PagingEffect(key[2])]_vars

\* C22 on a geometry with rows >= 1 and cols >= 1: the same effects, and
\* run goes on to the next frame
C22_OnPositiveGeometry ==
  [][(pc = "dispatch" /\ screen_rows >= 1 /\ screen_cols >= 1) =>
       /\ PagingEffect(key[2])
       /\ key[2] # <<"Char", 17>> => pc' = "refresh"]_vars

\* C22: on a screen of 2 rows, PageDown from row 0 has left the cursor in
\* row 1
C22_Example_PageDown ==
  [][(pc = "dispatch" /\ key[2] = KeyPageDown /\ screen_rows = 2
        /\ cursor_row = 0) => cursor_row' # 1]_vars

\* C22: on a screen of 0 rows the cursor has left row 0 (no overflow
\* checks), where PageUp makes no move at all
C22_Example_PageUpNoMove ==
  ~(pc = "dispatch" /\ key = <<"Ok", KeyPageUp>> /\ screen_rows = 0 /\ cursor_row = 1)

====
